---- MODULE Spec2Model ----
(***************************************************************************)
(* Verification model of two kernels of web-audio-api-rs:                  *)
(*   - the analyser kernel (src/src/analysis.rs): the ring buffer of       *)
(*     render quanta, the cycle check, the time-domain and the frequency   *)
(*     read-out;                                                           *)
(*   - the oscillator node (src/src/node/oscillator.rs): the control side  *)
(*     (PeriodicWave::new, set_type, set_periodic_wave) and the render     *)
(*     side (OscillatorRenderer::process and OscRendererInner).            *)
(*                                                                         *)
(* A render quantum (AudioRenderQuantumChannel, 128 f32 samples) is        *)
(* written as a tag: tag 0 is the silence block, tag c > 0 is the block    *)
(* whose p-th sample is the 1-based position (c-1)*128 + p + 1 of that     *)
(* sample in the stream, so that every sample of every signal block is     *)
(* distinct and non-zero.                                                  *)
(***************************************************************************)
EXTENDS Integers, Sequences, FiniteSets, TLC

\* ------------------------------------------------------------- constants
RENDER_QUANTUM_SIZE == 128
MAX_SAMPLES == 32768
MAX_QUANTA == MAX_SAMPLES \div RENDER_QUANTUM_SIZE
\* number of values of the u8 ring index
U8 == 256
\* fill value of a buffer the caller hands in (the tests use -1.)
FILL == -1

\* ---------------------------------------------------------------- bounds
\* add_data calls in the ring specification (more than one wrap of the ring)
MaxAdds == 259
\* add_data calls in the cycle specification
MaxCycleAdds == 258
\* leading silent blocks a run may feed
MaxSilent == 1
\* largest fft_size of a time-domain read, in render quanta
MaxFftQuanta == 3
\* largest caller buffer of a time-domain read, in render quanta
MaxOutQuanta == 4

\* add_data calls in the kernel specification
MaxKernelAdds == 2
\* add_data calls in the short specification of the TimeAnalyser
MaxShortAdds == 4
\* calculate_float_frequency calls in the kernel specification
MaxCalcs == 2

VARIABLES
    buffer,                 \* TimeAnalyser.buffer: the ring, a sequence of block tags
    index,                  \* TimeAnalyser.index: u8
    previous_cycle_index,   \* TimeAnalyser.previous_cycle_index: u8
    passed,                 \* history: the blocks passed to add_data, in call order
    indexTrace,             \* history: the value of index after creation and after each add_data
    sinceTrue,              \* history: add_data calls since the last true return of check_complete_cycle
    call,                   \* the last call made on the kernel, its arguments and what it returned
    fft_input,              \* Analyser.fft_input
    fft_output,             \* Analyser.fft_output: the magnitude of each bin
    current_fft_size,       \* Analyser.current_fft_size
    previous_block,         \* Analyser.previous_block, in units of 1 / SmoothUnit
    blackman,               \* Analyser.blackman
    nCalc,                  \* history: calculate_float_frequency calls made
    osc_type,               \* OscillatorNode.type_: the atomic shared with the renderer
    frequency,              \* the value of the frequency AudioParam, in Hz
    detune,                 \* the value of the detune AudioParam, in cents
    start_time,             \* Scheduler: the start time, in render quanta
    stop_time,              \* Scheduler: the stop time, in render quanta
    osc_options,            \* the OscillatorOptions the node was built from
    wave,                   \* the last PeriodicWave::new call, its result, and the calls made
    ctrl,                   \* the control thread: where it is in set_periodic_wave, and the message
    rpc,                    \* the render thread: where it is in new / process
    loaded,                 \* the locals of the process call under way
    renderer,               \* OscillatorRenderer.renderer: the OscRendererInner
    now,                    \* render quanta processed so far (timestamp = now * 128 / sample_rate)
    block                   \* the last process call that returned, and its output

timeVars == <<buffer, index, previous_cycle_index, passed, indexTrace, sinceTrue>>
freqVars == <<fft_input, fft_output, current_fft_size, previous_block, blackman, nCalc>>
ctrlVars == <<osc_type, frequency, detune, osc_options, start_time, stop_time, wave, ctrl>>
renderVars == <<rpc, loaded, renderer, now, block>>
oscVars == <<ctrlVars, renderVars>>
vars == <<timeVars, call, freqVars, oscVars>>

Min(a, b) == IF a < b THEN a ELSE b

\* sample p (0-based) of the block with tag b
Sample(b, p) == IF b = 0 THEN 0 ELSE (b - 1) * RENDER_QUANTUM_SIZE + p + 1

\* a caller buffer of len entries, as the caller fills it before the call
Fresh(len) == [i \in 1..len |-> FILL]

NoCall == [op |-> "none"]

\* ------------------------------------------------------- TimeAnalyser
TimeAnalyserNew ==
    /\ buffer = <<>>
    /\ index = 0
    /\ previous_cycle_index = 0

\* mutant: the index saturates at 255 instead of wrapping
SaturatingInc(i) == Min(i + 1, U8 - 1)

\* u8::wrapping_add(1)
WrappingInc(i) == (i + 1) % U8

\* mutant: u8::saturating_sub, a difference that does not wrap
SaturatingSub(a, b) == IF a >= b THEN a - b ELSE 0

\* u8::wrapping_sub
WrappingSub(a, b) == (a - b + U8) % U8

\* the ring after add_data(data)
BufferAfterAdd(buf, idx, data) ==
    IF Len(buf) < 256 THEN Append(buf, data)
    ELSE [buf EXCEPT ![idx + 1] = data]

add_data(data, cap) ==
    /\ Len(passed) < cap
    /\ buffer' = BufferAfterAdd(buffer, index, data)
    /\ index' = WrappingInc(index)
    /\ passed' = Append(passed, data)
    /\ indexTrace' = Append(indexTrace, index')
    /\ sinceTrue' = sinceTrue + 1
    /\ call' = [op |-> "add_data"]
    /\ UNCHANGED <<previous_cycle_index, freqVars, oscVars>>

\* processed_samples of check_complete_cycle
ProcessedSamples(idx, prev) == WrappingSub(idx, prev) * RENDER_QUANTUM_SIZE

CycleComplete(idx, prev, fft_size) == ProcessedSamples(idx, prev) % fft_size = 0

check_complete_cycle(fft_size) ==
    LET done == CycleComplete(index, previous_cycle_index, fft_size) IN
    /\ previous_cycle_index' = IF done THEN index ELSE previous_cycle_index
    /\ sinceTrue' = IF done THEN 0 ELSE sinceTrue
    /\ call' = [op |-> "check_complete_cycle", fft_size |-> fft_size,
                ret |-> done, since |-> sinceTrue]
    /\ UNCHANGED <<buffer, index, passed, indexTrace, freqVars, oscVars>>

\* mutant: the ring read from slot 0, not from the write index
Unrotated(buf, idx, k) == buf[k]

\* the ring in the order get_float_time chains it: buffer[index..] then buffer[..index]
Ordered(buf, idx, k) ==
    IF k <= Len(buf) - idx THEN buf[idx + k] ELSE buf[k - (Len(buf) - idx)]

\* the j-th (0-based) element of data_chunks: the ordered ring reversed, then silence
DataChunk(buf, idx, j) ==
    IF j < Len(buf) THEN Ordered(buf, idx, Len(buf) - j) ELSE 0

\* number of chunks chunks_mut(RENDER_QUANTUM_SIZE) cuts size entries into
NumChunks(size) == (size + RENDER_QUANTUM_SIZE - 1) \div RENDER_QUANTUM_SIZE

\* mutant: the rest of the caller buffer is padded with zeros
FloatTimeZeroPadded(buf, idx, old, fft_size) ==
    LET true_size == Min(fft_size, Len(old))
        n == NumChunks(true_size)
    IN [i \in 1..Len(old) |->
          IF i - 1 < true_size
          THEN LET c == (i - 1) \div RENDER_QUANTUM_SIZE
                   p == (i - 1) % RENDER_QUANTUM_SIZE
               IN Sample(DataChunk(buf, idx, n - 1 - c), p)
          ELSE 0]

\* the caller buffer old after get_float_time(old, fft_size)
FloatTime(buf, idx, old, fft_size) ==
    LET true_size == Min(fft_size, Len(old))
        n == NumChunks(true_size)
    IN [i \in 1..Len(old) |->
          IF i - 1 < true_size
          THEN LET c == (i - 1) \div RENDER_QUANTUM_SIZE
                   p == (i - 1) % RENDER_QUANTUM_SIZE
               IN Sample(DataChunk(buf, idx, n - 1 - c), p)
          ELSE old[i]]

get_float_time(fft_size, len) ==
    /\ Len(buffer) > 0
    /\ call' = [op |-> "get_float_time", fft_size |-> fft_size, len |-> len,
                out |-> FloatTime(buffer, index, Fresh(len), fft_size)]
    /\ UNCHANGED <<timeVars, freqVars, oscVars>>

\* ----------------------------------------------------------- Analyser
\* generate_blackman(size): entry i is the window value w(i, size), kept as
\* the pair <<i, size>>
generate_blackman(size) == [i \in 1..size |-> <<i - 1, size>>]

\* number of bins of a real FFT of size n (DynRealDft::len)
Bins(n) == n \div 2 + 1

Zeros(n) == [i \in 1..n |-> 0]

\* an entry of fft_input is a pair <<x, w>>: the sample x times the window
\* value w, or the bare sample when w is NoWindow; the zero entry is ZeroInput
NoWindow == <<0, 0>>
ZeroInput == <<0, NoWindow>>

\* *i *= *b: a sample times a window value; 0 stays 0
Windowed(x, b) == IF x = 0 THEN ZeroInput ELSE <<x, b>>

\* Analyser::new(initial_fft_size)
AnalyserNew(initial_fft_size) ==
    /\ TimeAnalyserNew
    /\ fft_input = [i \in 1..initial_fft_size |-> ZeroInput]
    /\ fft_output = Zeros(Bins(initial_fft_size))
    /\ previous_block = Zeros(Bins(initial_fft_size))
    /\ blackman = generate_blackman(initial_fft_size)
    /\ current_fft_size = initial_fft_size

\* smoothing_time_constant is given in halves: 0, 1/2 or 1
SmoothingHalves == {0, 1, 2}

\* previous_block holds multiples of 1 / SmoothUnit, which is exact for
\* MaxCalcs blends with a smoothing constant in halves
SmoothUnit == 2^MaxCalcs


\* the input of the FFT carries no signal
AllZero(input, fft_size) == \A i \in 1..fft_size : input[i] = ZeroInput

\* the magnitudes of the bins real_fft_using can return for an input of
\* fft_size samples: all zero for an all-zero input, else a spectrum with
\* energy in every bin or in bin 0 only
Spectra(input, fft_size) ==
    IF AllZero(input, fft_size)
    THEN {Zeros(Bins(fft_size))}
    ELSE {[k \in 1..Bins(fft_size) |-> 2],
          [k \in 1..Bins(fft_size) |-> IF k = 1 THEN 2 ELSE 0]}

\* *p = smoothing_time_constant * *p + (1. - smoothing_time_constant) * c.norm()
Smooth(s2, p, c) == (s2 * p + (2 - s2) * c * SmoothUnit) \div 2

\* previous_block after the reset of calculate_float_frequency
ResetPrevious(prev, cur, fft_size) ==
    IF cur # fft_size
    THEN [k \in 1..Len(prev) |-> IF k <= Bins(fft_size) THEN 0 ELSE prev[k]]
    ELSE prev

\* input after the window is applied: zip stops at the shorter of the two
WindowedInput(time, window, fft_size) ==
    [i \in 1..fft_size |->
        IF i <= Len(window) THEN Windowed(time[i], window[i])
        ELSE Windowed(time[i], NoWindow)]

\* previous_block after the smoothing over time of bins 0..fft_size/2
Smoothed(reset, spectrum, s2, fft_size) ==
    [k \in 1..Len(reset) |->
        IF k <= Bins(fft_size) /\ k <= Len(spectrum)
        THEN Smooth(s2, reset[k], spectrum[k])
        ELSE reset[k]]

\* the slices calculate_float_frequency takes are in range
CalcInRange(fft_size) ==
    /\ Bins(fft_size) <= Len(previous_block)
    /\ fft_size <= Len(fft_input)

calculate_float_frequency(fft_size, s2) ==
    /\ Len(buffer) > 0
    /\ nCalc < MaxCalcs
    /\ nCalc' = nCalc + 1
    /\ IF ~CalcInRange(fft_size)
       THEN /\ call' = [op |-> "calculate_float_frequency", fft_size |-> fft_size,
                        panic |-> TRUE]
            /\ UNCHANGED <<fft_input, fft_output, current_fft_size, previous_block, blackman>>
       ELSE \* get_float_time overwrites all of input, so the samples are read
            \* into a fresh slice before the window is applied
            LET window == IF current_fft_size # fft_size
                          THEN generate_blackman(fft_size) ELSE blackman
                input == WindowedInput(FloatTime(buffer, index, Fresh(fft_size), fft_size),
                                       window, fft_size)
                reset == ResetPrevious(previous_block, current_fft_size, fft_size)
            IN \E spectrum \in Spectra(input, fft_size) :
                /\ blackman' = window
                /\ current_fft_size' = fft_size
                /\ fft_input' = input \o SubSeq(fft_input, fft_size + 1, Len(fft_input))
                /\ fft_output' = spectrum
                /\ previous_block' = Smoothed(reset, spectrum, s2, fft_size)
                /\ call' = [op |-> "calculate_float_frequency", fft_size |-> fft_size,
                            panic |-> FALSE, smoothing |-> s2, reset |-> reset]
    /\ UNCHANGED <<timeVars, oscVars>>

NEG_INFINITY == [kind |-> "neg_inf"]
FreqFill == [kind |-> "fill"]

\* a caller buffer of len entries for the frequency data
FreshFreq(len) == [i \in 1..len |-> FreqFill]

\* 20. * o.log10() - norm, for the smoothed magnitude o at fft size n
Decibel(o, n) ==
    IF o = 0 THEN NEG_INFINITY ELSE [kind |-> "finite", mag |-> o, n |-> n]

\* mutant: only the first N/2 entries are taken from previous_block
FloatFrequencyShort(prev, cur, old) ==
    [i \in 1..Len(old) |->
        IF i <= cur \div 2 THEN Decibel(prev[i], cur) ELSE old[i]]

\* the caller buffer old after get_float_frequency(old)
FloatFrequency(prev, cur, old) ==
    [i \in 1..Len(old) |->
        IF i <= Bins(cur) THEN Decibel(prev[i], cur) ELSE old[i]]

get_float_frequency(len) ==
    /\ Bins(current_fft_size) <= Len(previous_block)
    /\ call' = [op |-> "get_float_frequency", len |-> len,
                out |-> FloatFrequency(previous_block, current_fft_size, FreshFreq(len))]
    /\ UNCHANGED <<timeVars, freqVars, oscVars>>

\* a panic ends the use of the kernel
Panicked == call.op = "calculate_float_frequency" /\ call.panic


\* ------------------------------------------------- oscillator: numbers
\* A frequency and the sample rate are held in units of 1 / FreqScale Hz, so
\* that a frequency detuned downwards by whole octaves stays exact.  A phase,
\* a phase increment and an interpolation ratio x is held as the integer
\* x * sample_rate ("ticks"): the quotients f / sample_rate of the source are
\* exact in that unit, and for a sample rate that is a power of two they are
\* exact in f32 as well, so that the phases of the source carry no rounding
\* error either.  A sample of the sine generator keeps the entries of
\* SINETABLE it interpolates unevaluated.  For the sums of harmonics of the
\* custom generator the sine table is held in units of 1 / TableScale, a
\* harmonic's amplitude in units of 1 / NormScale, and a sample in units of
\* FreqScale / (TableScale * NormScale * sample_rate).
FreqScale == 2^3
TABLE_LENGTH_USIZE == 2048
TableScale == 2^9
NormScale == 10^2

\* SINETABLE[x], x in 0..2047: one period of a sine, by Bhaskara's rational
\* approximation 16 q / (5 half^2 - 4 q) of the sine on a half period (exact
\* at 0, at the peaks and at the zero crossing)
SineTable(x) ==
    LET half == TABLE_LENGTH_USIZE \div 2
        h == x % half
        q == h * (half - h)
        v == (4 * q * TableScale) \div ((5 * half * half) \div 4 - q)
    IN IF x < half THEN v ELSE -v

\* x as usize, for x in ticks: truncation, negative values saturate to 0
AsUsize(x, sr) == IF x < 0 THEN 0 ELSE x \div sr

\* x - x.floor(), in ticks
Fract(x, sr) == x % sr

\* (x - x.round()).abs(), in ticks
RoundDistance(x, sr) == Min(x % sr, sr - (x % sr))

\* the largest k with k * k <= x
ISqrt(x, bound) == CHOOSE k \in 0..bound : k * k <= x /\ (k + 1) * (k + 1) > x

Abs(x) == IF x < 0 THEN -x ELSE x
Sign(x) == IF x > 0 THEN 1 ELSE IF x < 0 THEN -1 ELSE 0

\* (r^2 + i^2).sqrt(), in units of 1 / NormScale
Norm(re, im) ==
    ISqrt((re * re + im * im) * NormScale * NormScale, (Abs(re) + Abs(im)) * NormScale)

\* f32::atan2(im, re) in units of pi / 4, for coefficients in {-1, 0, 1}
Atan2Quarters(im, re) ==
    IF im = 0 THEN (IF re < 0 THEN 4 ELSE 0)
    ELSE IF im > 0 THEN (IF re > 0 THEN 1 ELSE IF re = 0 THEN 2 ELSE 3)
    ELSE (IF re > 0 THEN -1 ELSE IF re = 0 THEN -2 ELSE -3)

\* pi^2 in hundredths
Pi2Hundredths == 987

\* the start phase of a harmonic, in ticks:
\*   phase < 0:  (phase + 2. * PI) * (TABLE_LENGTH_F32 / (2.0 * PI))
\*   otherwise:  phase * (TABLE_LENGTH_F32 / 2.0 * PI), which is
\*               (k * pi / 4) * 1024 * pi = 256 * k * pi^2
StartPhase(im, re, sr) ==
    LET k == Atan2Quarters(im, re)
        x == 256 * k * sr
    IN IF k < 0 THEN (256 * k + TABLE_LENGTH_USIZE) * sr
       ELSE x * (Pi2Hundredths \div 100) + (x \div 100) * (Pi2Hundredths % 100)
            + ((x % 100) * (Pi2Hundredths % 100)) \div 100

\* one harmonic's term of a sample: the linear interpolation of the sine table
\* at phase + incr_phase, to the unit of a sample, times the gain
Harmonic(phase, incr_phase, mu, gain, sr) ==
    LET idx == AsUsize(phase + incr_phase, sr)
        inf_idx == idx % TABLE_LENGTH_USIZE
        sup_idx == (idx + 1) % TABLE_LENGTH_USIZE
    IN ((SineTable(inf_idx) * (sr - mu) + SineTable(sup_idx) * mu) \div FreqScale) * gain

RECURSIVE HarmonicSum(_, _, _, _, _, _)
\* the sum over the harmonics i..len of their terms
HarmonicSum(phases, incr_phases, ratios, norms, sr, i) ==
    IF i > Len(phases) THEN 0
    ELSE Harmonic(phases[i], incr_phases[i], ratios[i], norms[i], sr)
         + HarmonicSum(phases, incr_phases, ratios, norms, sr, i + 1)

\* the phases after one sample: every harmonic but the DC entry advances
Advance(phases, incr_phases) ==
    [i \in 1..Len(phases) |-> IF i >= 2 THEN phases[i] + incr_phases[i] ELSE phases[i]]

\* the condition of the while loop of generate_wavetable and update_wavetable
InLoop(phases, sr) == phases[2] <= TABLE_LENGTH_USIZE * sr

\* the loop is entered and never left: phases[1] of the source does not grow
Spins(phases, incr_phases, sr) == InLoop(phases, sr) /\ incr_phases[2] <= 0

RECURSIVE WavetableLoop(_, _, _, _, _, _)
\* the loop of generate_wavetable and of update_wavetable, where it is left
WavetableLoop(phases, incr_phases, ratios, norms, table, sr) ==
    IF ~InLoop(phases, sr)
    THEN [phases |-> phases, table |-> table]
    ELSE WavetableLoop(Advance(phases, incr_phases), incr_phases, ratios, norms,
                       Append(table, HarmonicSum(phases, incr_phases, ratios, norms, sr, 2)),
                       sr)

\* generate_wavetable / update_wavetable: done tells whether the loop is left
Wavetable(phases, incr_phases, ratios, norms, sr) ==
    IF Spins(phases, incr_phases, sr)
    THEN [done |-> FALSE, phases |-> phases, table |-> <<>>]
    ELSE LET loop == WavetableLoop(phases, incr_phases, ratios, norms, <<>>, sr)
         IN [done |-> TRUE, phases |-> loop.phases, table |-> loop.table]

RECURSIVE MaxOf(_, _)
\* buffer.iter().copied().reduce(f32::max) of a non-empty buffer, from entry i on
MaxOf(table, i) ==
    IF i = Len(table) THEN table[i]
    ELSE LET m == MaxOf(table, i + 1) IN IF table[i] > m THEN table[i] ELSE m

\* Option<f32> norm_factor: Some(1 / max) is written [some |-> TRUE, max |-> max]
NoNormFactor == [some |-> FALSE, max |-> 0]
SomeNormFactor(table) == [some |-> TRUE, max |-> MaxOf(table, 1)]

\* --------------------------------------------- oscillator: PeriodicWave
\* Option<PeriodicWaveOptions>: None is written NoOptions
NoOptions == [some |-> FALSE, real |-> <<>>, imag |-> <<>>, disable_normalization |-> FALSE]
SomeOptions(real, imag, dn) ==
    [some |-> TRUE, real |-> real, imag |-> imag, disable_normalization |-> dn]

\* a PeriodicWave
Descriptor(real, imag, dn) ==
    [ok |-> TRUE, real |-> real, imag |-> imag, disable_normalization |-> dn]

\* the panic of a failed assertion of PeriodicWave::new
RangeError == [ok |-> FALSE, real |-> <<>>, imag |-> <<>>, disable_normalization |-> FALSE]

\* mutant: the assertion on the length of imag is missing
PeriodicWaveNewUnchecked(options) ==
    IF options.some
    THEN IF Len(options.real) >= 2 /\ Len(options.real) = Len(options.imag)
         THEN Descriptor(options.real, options.imag, options.disable_normalization)
         ELSE IF Len(options.real) >= 2
         THEN Descriptor(options.real, options.imag, options.disable_normalization)
         ELSE RangeError
    ELSE Descriptor(<<0, 0>>, <<0, 1>>, FALSE)

\* PeriodicWave::new(context, options)
PeriodicWaveNew(options) ==
    IF options.some
    THEN IF /\ Len(options.real) >= 2
            /\ Len(options.imag) >= 2
            /\ Len(options.real) = Len(options.imag)
         THEN Descriptor(options.real, options.imag, options.disable_normalization)
         ELSE RangeError
    ELSE Descriptor(<<0, 0>>, <<0, 1>>, FALSE)

\* ----------------------------------------- oscillator: OscRendererInner
\* a rational number n / d, for WavetableState.phase and .incr_phase
Rat(n, d) == [n |-> n, d |-> d]

\* real.iter().zip(&imag): as many pairs as the shorter of the two
Zip(real, imag) == [i \in 1..Min(Len(real), Len(imag)) |-> <<real[i], imag[i]>>]

\* the arrays both OscRendererInner::new and set_periodic_wave derive from
\* the coefficients and the computed frequency
Norms(cplxs) == [i \in 1..Len(cplxs) |-> Norm(cplxs[i][1], cplxs[i][2])]
StartPhases(cplxs, sr) == [i \in 1..Len(cplxs) |-> StartPhase(cplxs[i][2], cplxs[i][1], sr)]
\* TABLE_LENGTH_F32 * idx as f32 * (computed_freq / sample_rate), in ticks
IncrPhases(cplxs, computed_freq) ==
    [i \in 1..Len(cplxs) |-> TABLE_LENGTH_USIZE * (i - 1) * computed_freq]

\* an f32 the triangle generator computes with, to MantissaBits bits: the
\* finite number m * 2^e with m = 0 or 2^(MantissaBits - 1) <= |m| <
\* 2^MantissaBits, NaN, or an infinity of sign m
MantissaBits == 15
Fl(m, e) == [kind |-> "finite", m |-> m, e |-> e]
FlNaN == [kind |-> "NaN", m |-> 0, e |-> 0]
FlInf(sign) == [kind |-> "inf", m |-> sign, e |-> 0]

RECURSIVE BitLen(_)
\* the number of binary digits of a >= 0
BitLen(a) == IF a = 0 THEN 0 ELSE 1 + BitLen(a \div 2)

\* a / 2^k for a >= 0 and k in 1..31, rounded to the nearest integer, a tie
\* to the even one
RoundShift(a, k) ==
    LET half == 2^(k - 1)
        hi == (a \div half) \div 2
        lo == a - hi * half - hi * half
    IN IF lo > half \/ (lo = half /\ hi % 2 = 1) THEN hi + 1 ELSE hi

\* the f32 m * 2^e for any integer m, rounded to the nearest, a tie to the
\* even one: at most MantissaBits digits are kept, and none below 2^-149, the
\* least subnormal; from f32::MAX plus half a unit in its last place on,
\* (2^25 - 1) * 2^103, it is an infinity
Normalise(m, e) ==
    LET \* r * 2^x for r of n digits, 0 < n <= MantissaBits + 1: a carry of
        \* the rounding that leaves the range of f32 gives the largest f32
        Packed(r, n, x) ==
            IF n <= MantissaBits
            THEN Fl(Sign(m) * r * 2^(MantissaBits - n), x - (MantissaBits - n))
            ELSE IF x + n > 128
            THEN Fl(Sign(m) * (2^MantissaBits - 1), 128 - MantissaBits)
            ELSE Fl(Sign(m) * 2^(MantissaBits - 1), x + 1)
        Kept(r, x) == IF r = 0 THEN Fl(0, 0) ELSE Packed(r, BitLen(r), x)
        \* a * 2^e for a of n digits, less its last drop digits
        Rounded(a, n, drop) ==
            IF \/ n + e > 128
               \/ n + e = 128 /\ n >= 25 /\ a \div 2^(n - 25) = 2^25 - 1
            THEN FlInf(Sign(m))
            ELSE IF drop <= 0 THEN Packed(a, n, e)
            ELSE IF drop > n THEN Fl(0, 0)
            ELSE Kept(RoundShift(a, drop), e + drop)
        Digits(a, n) ==
            Rounded(a, n, IF n - MantissaBits > -149 - e
                          THEN n - MantissaBits ELSE -149 - e)
    IN IF m = 0 THEN Fl(0, 0) ELSE Digits(Abs(m), BitLen(Abs(m)))

FlNeg(a) == [a EXCEPT !.m = -a.m]

\* a * b of f32
FlMul(a, b) ==
    IF a.kind = "NaN" \/ b.kind = "NaN" THEN FlNaN
    ELSE IF a.kind = "inf" \/ b.kind = "inf"
    THEN (IF a.m = 0 \/ b.m = 0 THEN FlNaN ELSE FlInf(Sign(a.m) * Sign(b.m)))
    ELSE Normalise(a.m * b.m, a.e + b.e)

\* a + b of f32: an operand below a quarter of the unit in the last place of
\* the other one leaves that one as it is
FlAdd(a, b) ==
    IF a.kind = "NaN" \/ b.kind = "NaN" THEN FlNaN
    ELSE IF a.kind = "inf" /\ b.kind = "inf" THEN (IF a.m = b.m THEN a ELSE FlNaN)
    ELSE IF a.kind = "inf" THEN a
    ELSE IF b.kind = "inf" THEN b
    ELSE IF a.m = 0 THEN b
    ELSE IF b.m = 0 THEN a
    ELSE IF a.e - b.e > MantissaBits + 1 THEN a
    ELSE IF b.e - a.e > MantissaBits + 1 THEN b
    ELSE IF a.e >= b.e THEN Normalise(a.m * 2^(a.e - b.e) + b.m, b.e)
    ELSE Normalise(b.m * 2^(b.e - a.e) + a.m, a.e)

FlSub(a, b) == FlAdd(a, FlNeg(b))

\* a / b of f32: the quotient to MantissaBits + 2 digits, and one more digit
\* that tells whether the division left a remainder
FlDiv(a, b) ==
    IF a.kind = "NaN" \/ b.kind = "NaN" THEN FlNaN
    ELSE IF a.kind = "inf" THEN (IF b.kind = "inf" THEN FlNaN
                                 ELSE FlInf(a.m * (IF b.m < 0 THEN -1 ELSE 1)))
    ELSE IF b.kind = "inf" THEN Fl(0, 0)
    ELSE IF b.m = 0 THEN (IF a.m = 0 THEN FlNaN ELSE FlInf(Sign(a.m)))
    ELSE LET n == Abs(a.m) * 2^(MantissaBits + 1)
             d == Abs(b.m)
             q == 2 * (n \div d) + (IF n % d = 0 THEN 0 ELSE 1)
         IN Normalise(Sign(a.m) * Sign(b.m) * q, a.e - b.e - MantissaBits - 2)

\* the integer x as f32, and x ticks as f32
FlInt(x) == Normalise(x, 0)
FlTicks(x, sr) == FlDiv(FlInt(x), FlInt(sr))

\* an f32 of the periodic state that a division by a zero frequency can make
\* non-finite: a finite number of ticks v, NaN, or an infinity of sign v
Finite(x) == [kind |-> "finite", v |-> x]
NaN == [kind |-> "NaN", v |-> 0]
Infinite(sign) == [kind |-> "inf", v |-> sign]
Finites(xs) == [i \in 1..Len(xs) |-> Finite(xs[i])]
Values(fs) == [i \in 1..Len(fs) |-> fs[i].v]

\* OscRendererInner::new(computed_freq, sample_rate, periodic_wave): the
\* renderer, and how the constructor ended: "ok", "spin" (the wavetable loop
\* is never left) or "panic" (no maximum of an empty wavetable)
RendererNew(computed_freq, sr, periodic_wave) ==
    LET pw == IF periodic_wave.ok THEN periodic_wave
              ELSE Descriptor(<<0, 1>>, <<0, 0>>, FALSE)
        cplxs == Zip(pw.real, pw.imag)
        norms == Norms(cplxs)
        incr_phases == IncrPhases(cplxs, computed_freq)
        interpol_ratios == [i \in 1..Len(cplxs) |-> Fract(incr_phases[i], sr)]
        loop == Wavetable(StartPhases(cplxs, sr), incr_phases, interpol_ratios, norms, sr)
        empty == Len(loop.table) = 0
    IN [status |-> IF ~loop.done THEN "spin"
                   ELSE IF ~pw.disable_normalization /\ empty THEN "panic"
                   ELSE "ok",
        r |-> [computed_freq |-> computed_freq,
               sample_rate |-> sr,
               phase |-> 0,
               incr_phase |-> computed_freq,
               sine_interpol_ratio |-> Fract(computed_freq, sr) * TABLE_LENGTH_USIZE,
               sine_first |-> TRUE,
               triangle_last_output |-> Fl(0, 0),
               cplxs |-> cplxs,
               norms |-> norms,
               phases |-> Finites(loop.phases),
               incr_phases |-> Finites(incr_phases),
               interpol_ratios |-> Finites(interpol_ratios),
               norm_factor |-> IF ~pw.disable_normalization /\ loop.done /\ ~empty
                               THEN SomeNormFactor(loop.table) ELSE NoNormFactor,
               disable_normalization |-> pw.disable_normalization,
               periodic_wavetable |-> loop.table,
               wt_phase |-> Rat(0, 1),
               wt_incr_phase |-> Rat(1, 1),
               ref_freq |-> computed_freq]]

\* OscRendererInner::set_periodic_wave(periodic_wave) on renderer r
RendererSetPeriodicWave(r, periodic_wave) ==
    LET sr == r.sample_rate
        cplxs == Zip(periodic_wave.real, periodic_wave.imag)
        norms == Norms(cplxs)
        incr_phases == IncrPhases(cplxs, r.computed_freq)
        interpol_ratios == [i \in 1..Len(cplxs) |-> RoundDistance(incr_phases[i], sr)]
        loop == Wavetable(StartPhases(cplxs, sr), incr_phases, interpol_ratios, norms, sr)
        empty == Len(loop.table) = 0
    IN [status |-> IF ~loop.done THEN "spin"
                   ELSE IF ~periodic_wave.disable_normalization /\ empty THEN "panic"
                   ELSE "ok",
        r |-> [r EXCEPT
               !.cplxs = cplxs,
               !.norms = norms,
               !.phases = Finites(loop.phases),
               !.incr_phases = Finites(incr_phases),
               !.interpol_ratios = Finites(interpol_ratios),
               !.periodic_wavetable = loop.table,
               !.ref_freq = IF loop.done THEN r.computed_freq ELSE r.ref_freq,
               !.norm_factor = IF ~loop.done THEN r.norm_factor
                               ELSE IF periodic_wave.disable_normalization THEN NoNormFactor
                               ELSE IF empty THEN r.norm_factor
                               ELSE SomeNormFactor(loop.table)]]

RECURSIVE Gcd(_, _)
Gcd(a, b) == IF b = 0 THEN a ELSE Gcd(b, a % b)

\* the rational n / d in lowest terms, d > 0
Reduced(n, d) == LET g == Gcd(n, d) IN IF g = 0 THEN Rat(0, 1) ELSE Rat(n \div g, d \div g)

\* a % b of f32 for b > 0: the result has the sign of a
Fmod(a, b) == IF a >= 0 THEN a % b ELSE -((-a) % b)

\* (a + b) % len, for rationals a, b and an integer len > 0
RatAddMod(a, b, len) ==
    LET d == a.d * b.d
        n == a.n * b.d + b.n * a.d
    IN Reduced(Fmod(n, len * d), d)

\* one term of a sample that poly_blep(t) contributes, with dt = incr_phase,
\* kept unevaluated: on the "rise" edge (t < dt) it is -((t - dt) / dt)^2, on
\* the "fall" edge (t > 1 - dt) it is ((t - 1 + dt) / dt)^2, else it is 0
poly_blep(sign, t, dt, sr) ==
    IF t < dt THEN [sign |-> sign, edge |-> "rise", t |-> t, dt |-> dt]
    ELSE IF t > sr - dt THEN [sign |-> sign, edge |-> "fall", t |-> t, dt |-> dt]
    ELSE [sign |-> sign, edge |-> "none", t |-> 0, dt |-> 0]

\* one output sample, the sum of
\*   num, in units of 1 / (TableScale * sample_rate) for scale "table", of
\*     FreqScale / (TableScale * NormScale * sample_rate) for scale "table_norm" and
\*     of 1 / sample_rate for scale "turn", times 1 / norm.max where
\*     norm.some; for scale "NaN" the sample is NaN;
\*   the poly_blep terms of blep;
\*   SINETABLE[idx] * c / sample_rate for each entry of table;
\*   the f32 value
BlepSample(num, scale, norm, blep) ==
    [num |-> num, scale |-> scale, norm |-> norm, blep |-> blep, table |-> <<>>,
     f32 |-> Fl(0, 0)]
SampleOf(num, scale, norm) == BlepSample(num, scale, norm, <<>>)

\* SINETABLE[inf_idx] * (1. - interpol_ratio) + SINETABLE[sup_idx] * interpol_ratio,
\* the entries of SINETABLE kept unevaluated
SineSample(inf_idx, sup_idx, interpol_ratio, sr) ==
    [SampleOf(0, "turn", NoNormFactor) EXCEPT
        !.table = <<[idx |-> inf_idx, c |-> sr - interpol_ratio],
                    [idx |-> sup_idx, c |-> interpol_ratio]>>]

\* an f32 sample
FlSample(x) == [SampleOf(0, "f32", NoNormFactor) EXCEPT !.f32 = x]

\* OscRendererInner::compute_params(type_, computed_freq) for type_ = Sine
ComputeParamsSine(r, computed_freq) ==
    LET incr == computed_freq * TABLE_LENGTH_USIZE
        r1 == IF r.sine_first
              THEN [r EXCEPT !.sine_first = FALSE, !.incr_phase = incr]
              ELSE r
    IN IF r1.computed_freq = computed_freq THEN r1
       ELSE [r1 EXCEPT !.computed_freq = computed_freq, !.incr_phase = incr]

\* OscRendererInner::compute_params(type_, computed_freq)
compute_params(r, type_, computed_freq) ==
    IF type_ = "Sine" THEN ComputeParamsSine(r, computed_freq)
    ELSE IF r.computed_freq = computed_freq THEN r
    ELSE [r EXCEPT !.computed_freq = computed_freq, !.incr_phase = computed_freq]

\* one iteration of the loop of generate_sine: the renderer after it and the sample
SineStep(r, computed_freq) ==
    LET r1 == compute_params(r, "Sine", computed_freq)
        sr == r1.sample_rate
        idx == AsUsize(r1.phase, sr)
        inf_idx == idx % TABLE_LENGTH_USIZE
        sup_idx == (idx + 1) % TABLE_LENGTH_USIZE
        next == r1.phase + r1.incr_phase
    IN [r |-> [r1 EXCEPT !.phase = IF next >= TABLE_LENGTH_USIZE * sr
                                    THEN next - TABLE_LENGTH_USIZE * sr
                                    ELSE next],
        o |-> SineSample(inf_idx, sup_idx, r1.sine_interpol_ratio, sr),
        status |-> "ok"]

\* while x >= 1. { x -= 1. }
WrapUnit(x, sr) == IF x >= sr THEN x % sr ELSE x

\* one iteration of the loop of generate_sawtooth
SawtoothStep(r, computed_freq) ==
    LET r1 == compute_params(r, "Sawtooth", computed_freq)
        sr == r1.sample_rate
    IN [r |-> [r1 EXCEPT !.phase = WrapUnit(r1.phase + r1.incr_phase, sr)],
        o |-> BlepSample(2 * r1.phase - sr, "turn", NoNormFactor,
                         <<poly_blep(-1, r1.phase, r1.incr_phase, sr)>>),
        status |-> "ok"]

\* one iteration of the loop of generate_square
SquareStep(r, computed_freq) ==
    LET r1 == compute_params(r, "Square", computed_freq)
        sr == r1.sample_rate
        shift_phase == WrapUnit(r1.phase + sr \div 2, sr)
    IN [r |-> [r1 EXCEPT !.phase = WrapUnit(r1.phase + r1.incr_phase, sr)],
        o |-> BlepSample(IF 2 * r1.phase <= sr THEN sr ELSE -sr, "turn", NoNormFactor,
                         <<poly_blep(1, r1.phase, r1.incr_phase, sr),
                           poly_blep(-1, shift_phase, r1.incr_phase, sr)>>),
        status |-> "ok"]

\* poly_blep(t) of f32 with dt = incr_phase, for t and dt in ticks
FlPolyBlep(t, dt, sr) ==
    IF t < dt
    THEN LET u == FlDiv(FlInt(t), FlInt(dt))
         IN FlSub(FlSub(FlAdd(u, u), FlMul(u, u)), FlInt(1))
    ELSE IF t > sr - dt
    THEN LET u == FlDiv(FlInt(t - sr), FlInt(dt))
         IN FlAdd(FlAdd(FlAdd(FlMul(u, u), u), u), FlInt(1))
    ELSE Fl(0, 0)

\* one iteration of the loop of generate_triangle
TriangleStep(r, computed_freq) ==
    LET r1 == compute_params(r, "Triangle", computed_freq)
        sr == r1.sample_rate
        shift_phase == WrapUnit(r1.phase + sr \div 2, sr)
        incr_phase == FlTicks(r1.incr_phase, sr)
        square == FlSub(FlAdd(FlInt(IF 2 * r1.phase <= sr THEN 1 ELSE -1),
                              FlPolyBlep(r1.phase, r1.incr_phase, sr)),
                        FlPolyBlep(shift_phase, r1.incr_phase, sr))
        sample == FlAdd(FlMul(incr_phase, square),
                        FlMul(FlSub(FlInt(1), incr_phase), r1.triangle_last_output))
    IN [r |-> [r1 EXCEPT !.phase = WrapUnit(r1.phase + r1.incr_phase, sr),
                         !.triangle_last_output = sample],
        o |-> FlSample(FlMul(sample, FlInt(4))),
        status |-> "ok"]

\* a / b for b # 0, exact where b divides a
ExactDiv(a, b) == IF b < 0 THEN (-a) \div (-b) ELSE a \div b

\* x * (new / old) of f32 for new # old: new / 0. is an infinity, 0. * inf
\* and inf * 0. are NaN; a finite x is scaled exactly where old divides it,
\* as it does for the frequencies of the specifications
MulRatio(x, new, old) ==
    IF x.kind = "NaN" THEN NaN
    ELSE IF old = 0
    THEN (IF x.kind = "finite" /\ x.v = 0 THEN NaN
          ELSE Infinite(Sign(x.v) * Sign(new)))
    ELSE IF x.kind = "inf"
    THEN (IF new = 0 THEN NaN ELSE Infinite(x.v * Sign(new) * Sign(old)))
    ELSE Finite(ExactDiv(x.v, old) * new)

\* x - x.floor() of f32: inf - inf is NaN
FractOf(x, sr) == IF x.kind = "finite" THEN Finite(Fract(x.v, sr)) ELSE NaN

\* n / d of f32 as a rational: n / 0. is written Rat(1, 0) or Rat(-1, 0), an
\* infinity, and 0. / 0. is written Rat(0, 0), NaN
RatioOf(n, d) == IF d = 0 THEN Rat(Sign(n), 0) ELSE Reduced(n, d)

\* OscRendererInner::compute_periodic_params(new_comp_freq)
ComputePeriodicParams(r, new_comp_freq) ==
    IF r.computed_freq = new_comp_freq THEN r
    ELSE LET incr_phases == [i \in 1..Len(r.incr_phases) |->
                                MulRatio(r.incr_phases[i], new_comp_freq, r.computed_freq)]
         IN [r EXCEPT
             !.incr_phases = incr_phases,
             !.interpol_ratios = [i \in 1..Len(r.interpol_ratios) |->
                                     FractOf(incr_phases[i], r.sample_rate)],
             !.wt_incr_phase = RatioOf(new_comp_freq, r.ref_freq),
             !.computed_freq = new_comp_freq]

\* phase + incr_phase of f32
FAdd(a, b) ==
    IF a.kind = "NaN" \/ b.kind = "NaN" THEN NaN
    ELSE IF a.kind = "inf" /\ b.kind = "inf" THEN (IF a.v = b.v THEN a ELSE NaN)
    ELSE IF a.kind = "inf" THEN a
    ELSE IF b.kind = "inf" THEN b
    ELSE Finite(a.v + b.v)

\* the phases after one sample of the direct synthesis of generate_custom: a
\* NaN is not >= TABLE_LENGTH_F32, and an infinity less TABLE_LENGTH_F32 is
\* that infinity
AdvanceWrapped(phases, incr_phases, sr) ==
    [i \in 1..Len(phases) |->
        IF i < 2 THEN phases[i]
        ELSE LET next == FAdd(phases[i], incr_phases[i])
             IN IF next.kind = "finite" /\ next.v >= TABLE_LENGTH_USIZE * sr
                THEN Finite(next.v - TABLE_LENGTH_USIZE * sr)
                ELSE next]

\* (phase + incr_phase) as usize is usize::MAX for some harmonic, so that
\* idx + 1 overflows: a panic where overflow checks are on, 0 otherwise
IdxOverflows(phases, incr_phases) ==
    \E i \in 2..Len(phases) :
        LET next == FAdd(phases[i], incr_phases[i])
        IN next.kind = "inf" /\ next.v > 0

\* the sample of the direct synthesis of generate_custom: NaN where the
\* interpolation ratio of a harmonic is; a phase or an increment is finite
\* where the ratio is
DirectSample(r) ==
    IF \A i \in 2..Len(r.phases) : r.interpol_ratios[i].kind = "finite"
    THEN SampleOf(HarmonicSum(Values(r.phases), Values(r.incr_phases),
                              Values(r.interpol_ratios), r.norms, r.sample_rate, 2),
                  "table_norm", r.norm_factor)
    ELSE SampleOf(0, "NaN", NoNormFactor)

\* one iteration of the loop of generate_custom: the renderer after it, the
\* sample, how it ended ("panic": an index out of the empty wavetable), and
\* whether idx + 1 overflowed
CustomStep(r, computed_freq) ==
    LET r1 == ComputePeriodicParams(r, computed_freq)
        sr == r1.sample_rate
        len == Len(r1.periodic_wavetable)
    IN IF ~r1.disable_normalization
       THEN IF len = 0
            THEN [r |-> r1, o |-> SampleOf(0, "table_norm", NoNormFactor),
                  status |-> "panic", overflow |-> FALSE]
            ELSE LET phase == RatAddMod(r1.wt_phase, r1.wt_incr_phase, len)
                 IN [r |-> [r1 EXCEPT !.wt_phase = phase],
                     o |-> SampleOf(r1.periodic_wavetable[AsUsize(phase.n, phase.d) + 1],
                                    "table_norm", NoNormFactor),
                     status |-> "ok", overflow |-> FALSE]
       ELSE [r |-> [r1 EXCEPT !.phases =
                        AdvanceWrapped(r1.phases, r1.incr_phases, sr)],
             o |-> DirectSample(r1),
             status |-> "ok",
             overflow |-> IdxOverflows(r1.phases, r1.incr_phases)]

\* OscillatorType
Rendered == {"Sine", "Square", "Sawtooth", "Triangle", "Custom"}

\* the phase the next sample of type_ is computed from: the shared phase for
\* sine, square, sawtooth and triangle, the phase of the wavetable or of the
\* fundamental for custom
PhaseOf(type_, r) ==
    IF type_ # "Custom" THEN Finite(r.phase)
    ELSE IF ~r.disable_normalization
    THEN Finite(ExactDiv(r.wt_phase.n * r.sample_rate, r.wt_phase.d))
    ELSE r.phases[2]

\* one iteration of the loop of the generator of type_
GenerateStep(type_, r, computed_freq) ==
    IF type_ = "Sine" THEN SineStep(r, computed_freq)
    ELSE IF type_ = "Square" THEN SquareStep(r, computed_freq)
    ELSE IF type_ = "Sawtooth" THEN SawtoothStep(r, computed_freq)
    ELSE IF type_ = "Triangle" THEN TriangleStep(r, computed_freq)
    ELSE CustomStep(r, computed_freq)

RECURSIVE GenerateLoop(_, _, _, _)
\* the loop of the generator of type_ over n >= 1 samples of the buffer, as
\* its first half followed by its second half: the renderer after it, the
\* samples written, how it ended ("ok" or "panic"), whether an index
\* computation overflowed, and the least and the greatest phase a sample was
\* computed from: NaN where one of the phases is NaN, and an infinity is
\* beyond every number
GenerateLoop(type_, r, computed_freq, n) ==
    IF n = 1
    THEN LET s == GenerateStep(type_, r, computed_freq)
             phase == PhaseOf(type_, r)
         IN [r |-> s.r, out |-> IF s.status = "ok" THEN <<s.o>> ELSE <<>>,
             status |-> s.status,
             overflow |-> type_ = "Custom" /\ s.overflow,
             lo |-> phase, hi |-> phase]
    ELSE LET first == GenerateLoop(type_, r, computed_freq, n \div 2)
             \* the lesser of a and b for least = TRUE, else the greater
             Extreme(a, b, least) ==
                 LET less == IF a.kind = "inf"
                             THEN a.v < 0 /\ (b.kind = "finite" \/ b.v > 0)
                             ELSE IF b.kind = "inf" THEN b.v > 0
                             ELSE a.v < b.v
                 IN IF a.kind = "NaN" \/ b.kind = "NaN" THEN NaN
                    ELSE IF less = least THEN a ELSE b
         IN IF first.status # "ok" THEN first
            ELSE LET second == GenerateLoop(type_, first.r, computed_freq, n - n \div 2)
                 IN [r |-> second.r, out |-> first.out \o second.out,
                     status |-> second.status,
                     overflow |-> first.overflow \/ second.overflow,
                     lo |-> Extreme(first.lo, second.lo, TRUE),
                     hi |-> Extreme(first.hi, second.hi, FALSE)]

\* OscRendererInner::generate_output(type_, buffer, freq_values), for a
\* frequency that is the same for every sample of the block
generate_output(type_, r, computed_freq) ==
    GenerateLoop(type_, r, computed_freq, RENDER_QUANTUM_SIZE)

\* ---------------------------------------------------- oscillator: node
\* Option<PeriodicWave>: None is written NoWave
NoWave == [ok |-> FALSE, real |-> <<>>, imag |-> <<>>, disable_normalization |-> FALSE]

\* Scheduler: a time that was not set
Unset == [set |-> FALSE, t |-> 0]
At(t) == [set |-> TRUE, t |-> t]

\* Scheduler::is_active(timestamp), in render quanta
is_active(t) ==
    /\ start_time.set
    /\ start_time.t <= t
    /\ (stop_time.set => t < stop_time.t)

\* the node exists and its render thread runs
Alive == rpc \in {"idle", "loaded"}

\* the control thread is not inside a call
AtRest == ctrl.pc = "idle"

NoRenderer == [built |-> FALSE]
NoOptionsYet == [type_ |-> "none", frequency |-> 0, periodic_wave |-> NoWave]
\* the last completed process call: its block number t, whether the source
\* was active, the type and the computed frequency it generated with, the
\* samples written, whether a message was pending when it began and whether
\* it applied one; and history: dc (every active block so far was a sine at
\* 0 Hz), type_at_begin (the node's type when the call began), wave_dn (the
\* disable_normalization of the descriptor in force), the phase of the first
\* sample, the least and the greatest phase of a sample, the phase and the
\* increment the call left, and the type and the phase the active block
\* before it left
NoBlock ==
    [t |-> -1, active |-> FALSE, type_ |-> "none", out |-> <<>>,
     pending |-> FALSE, applied |-> FALSE, dc |-> TRUE,
     freq |-> 0, type_at_begin |-> "none", wave_dn |-> FALSE,
     first_phase |-> Finite(0), lo |-> Finite(0), hi |-> Finite(0),
     last_phase |-> Finite(0), incr_phase |-> 0,
     prev_type |-> "none", prev_last_phase |-> Finite(0)]

OscInit ==
    /\ osc_type = "none"
    /\ frequency = 0
    /\ detune = 0
    /\ osc_options = NoOptionsYet
    /\ start_time = Unset
    /\ stop_time = Unset
    /\ wave = [made |-> 0, options |-> NoOptions, result |-> RangeError]
    /\ ctrl = [pc |-> "idle", msg |-> NoWave, waited |-> 0, was |-> "none"]
    /\ rpc = "unbuilt"
    /\ loaded = [type_ |-> "none", freq |-> 0, pending |-> FALSE, type_at_begin |-> "none"]
    /\ renderer = NoRenderer
    /\ now = 0
    /\ block = NoBlock

\* the application calls PeriodicWave::new(context, o), at most cap times
NewPeriodicWave(o, cap) ==
    /\ AtRest
    /\ rpc \in {"unbuilt", "idle", "loaded"}
    /\ wave.made < cap
    /\ wave' = [made |-> wave.made + 1, options |-> o, result |-> PeriodicWaveNew(o)]
    /\ UNCHANGED <<osc_type, frequency, detune, osc_options, start_time, stop_time, ctrl, renderVars>>
    /\ UNCHANGED <<timeVars, call, freqVars>>

\* OscillatorNode::new(context, options) in a context of sample rate sr
OscillatorNodeNew(type_, freq, periodic_wave, sr) ==
    /\ rpc = "unbuilt"
    /\ osc_options' = [type_ |-> type_, frequency |-> freq, periodic_wave |-> periodic_wave]
    /\ osc_type' = type_
    /\ frequency' = freq
    /\ detune' = 0
    /\ \E built \in {RendererNew(freq, sr, periodic_wave)} :
          /\ rpc' = IF built.status = "spin" THEN "new_spins"
                    ELSE IF built.status = "panic" THEN "new_panics"
                    ELSE "idle"
          /\ renderer' = IF built.status = "ok" THEN built.r ELSE renderer
    /\ block' = [block EXCEPT !.wave_dn = periodic_wave.ok /\ periodic_wave.disable_normalization]
    /\ UNCHANGED <<start_time, stop_time, wave, ctrl, loaded, now>>
    /\ UNCHANGED <<timeVars, call, freqVars>>

\* AudioParam::set_value(f) on the frequency parameter
SetFrequency(f) ==
    /\ Alive /\ AtRest
    /\ f # frequency
    /\ frequency' = f
    /\ UNCHANGED <<osc_type, detune, osc_options, start_time, stop_time, wave, ctrl, renderVars>>
    /\ UNCHANGED <<timeVars, call, freqVars>>

\* AudioParam::set_value(d) on the detune parameter
SetDetune(d) ==
    /\ Alive /\ AtRest
    /\ d # detune
    /\ detune' = d
    /\ UNCHANGED <<osc_type, frequency, osc_options, start_time, stop_time, wave, ctrl, renderVars>>
    /\ UNCHANGED <<timeVars, call, freqVars>>

\* OscillatorNode::set_type(type_)
set_type(type_) ==
    /\ Alive /\ AtRest
    /\ type_ # osc_type
    /\ osc_type' = type_
    /\ UNCHANGED <<frequency, detune, osc_options, start_time, stop_time, wave, ctrl, renderVars>>
    /\ UNCHANGED <<timeVars, call, freqVars>>

\* AudioScheduledSourceNode::start_at(t)
Start(t) ==
    /\ Alive /\ AtRest
    /\ ~start_time.set
    /\ start_time' = At(t)
    /\ UNCHANGED <<osc_type, frequency, detune, osc_options, stop_time, wave, ctrl, renderVars>>
    /\ UNCHANGED <<timeVars, call, freqVars>>

\* AudioScheduledSourceNode::stop_at(t)
Stop(t) ==
    /\ Alive /\ AtRest
    /\ start_time.set /\ ~stop_time.set
    /\ stop_time' = At(t)
    /\ UNCHANGED <<osc_type, frequency, detune, osc_options, start_time, wave, ctrl, renderVars>>
    /\ UNCHANGED <<timeVars, call, freqVars>>

\* OscillatorNode::set_periodic_wave(periodic_wave), its first statement:
\* self.set_type(OscillatorType::Custom); ctrl.was is the type the node had
\* before it
SetPeriodicWaveStore ==
    /\ Alive /\ AtRest
    /\ wave.made > 0 /\ wave.result.ok
    /\ osc_type' = "Custom"
    /\ ctrl' = [pc |-> "stored", msg |-> wave.result, waited |-> 0, was |-> osc_type]
    /\ UNCHANGED <<frequency, detune, osc_options, start_time, stop_time, wave, renderVars>>
    /\ UNCHANGED <<timeVars, call, freqVars>>

\* OscillatorNode::set_periodic_wave, its second statement: self.sender.send
\* on the channel of capacity 0; the thread is parked until a try_recv of the
\* renderer takes the message
SetPeriodicWaveSend ==
    /\ Alive
    /\ ctrl.pc = "stored"
    /\ ctrl' = [ctrl EXCEPT !.pc = "sending"]
    /\ UNCHANGED <<osc_type, frequency, detune, osc_options, start_time, stop_time, wave, renderVars>>
    /\ UNCHANGED <<timeVars, call, freqVars>>

\* f * 2f32.powf(d / 1200.), for d in cents: exact where d is a whole number
\* of octaves and the product a whole number of units, else to the nearest
\* unit of the frequency.  The power of the c cents above the octave is
\* ratio, in units of 1 / 2^15 and to 3 parts in 10^5: 2^(s / 12) for the
\* whole semitones s of c, times 1 + x + x^2 / 2 + x^3 / 6 for
\* x = ln 2 * r / 1200, r the cents left
ComputedFreq(f, d) ==
    LET oct == IF d >= 0 THEN d \div 1200 ELSE -((1199 - d) \div 1200)
        c == d - 1200 * oct
        semitones == <<32768, 34716, 36781, 38968, 41285, 43740,
                       46341, 49097, 52016, 55109, 58386, 61858>>
        s == semitones[c \div 100 + 1]
        x20 == ((c % 100) * 60568) \div 100
        x15 == x20 \div 2^5
        t2 == (x15 * x15) \div 2^11
        t3 == (t2 * x15) \div (3 * 2^15)
        w == (x20 + t2 + t3) \div 2
        ratio == IF w = 0 THEN s ELSE s + RoundShift(s * w, 19)
        \* x * ratio / 2^k for x >= 0 and k in 15..30, to the nearest integer
        Scaled(x, k) ==
            LET t == (x \div 2^14) * ratio
            IN t \div 2^(k - 14)
               + RoundShift((t % 2^(k - 14)) * 2^14 + (x % 2^14) * ratio, k)
        a == Abs(f)
        down == IF oct < -31 THEN 32 ELSE -oct
        v == IF c = 0
             THEN (IF oct >= 0 THEN a * 2^oct
                   ELSE IF down > 31 THEN 0 ELSE RoundShift(a, down))
             ELSE IF oct >= 0 THEN Scaled(a * 2^oct, 15)
             ELSE IF down <= 15 THEN Scaled(a, 15 + down)
             ELSE IF down > 31 THEN 0
             ELSE RoundShift(Scaled(a, 15), down)
    IN Sign(f) * v

\* mutant: the type the block before was generated with
StaleType == IF block.active THEN block.type_ ELSE osc_type

\* self.type_.load(Ordering::SeqCst).into()
LoadType == osc_type

\* mutant: the buffer is left as the call before wrote it
Unsilenced == block.out

\* output.make_silent()
Silence == [i \in 1..RENDER_QUANTUM_SIZE |-> SampleOf(0, "table", NoNormFactor)]

\* the record of process call number t for a block in which the source is
\* not active; b is the record of the call before it
InactiveBlock(t, pending, b) ==
    [b EXCEPT !.t = t, !.active = FALSE, !.type_ = "none", !.out = Silence,
              !.pending = pending, !.applied = FALSE,
              !.prev_type = IF b.active THEN b.type_ ELSE b.prev_type,
              !.prev_last_phase = IF b.active THEN b.last_phase ELSE b.prev_last_phase]

\* ctrl after a process call returned while the control thread was parked in send
Waited(c) == IF c.pc = "sending" THEN [c EXCEPT !.waited = c.waited + 1] ELSE c

\* OscillatorRenderer::process up to the load of the type: for a block in
\* which the source is not active, the whole call
ProcessBegin(cap) ==
    /\ rpc = "idle"
    /\ now < cap
    /\ IF ~is_active(now)
       THEN /\ block' = InactiveBlock(now, ctrl.pc = "sending", block)
            /\ now' = now + 1
            /\ ctrl' = Waited(ctrl)
            /\ UNCHANGED <<rpc, loaded>>
       ELSE /\ loaded' = [type_ |-> LoadType, freq |-> ComputedFreq(frequency, detune),
                          pending |-> ctrl.pc = "sending", type_at_begin |-> osc_type]
            /\ rpc' = "loaded"
            /\ UNCHANGED <<block, now, ctrl>>
    /\ UNCHANGED <<osc_type, frequency, detune, osc_options, start_time, stop_time, wave, renderer>>
    /\ UNCHANGED <<timeVars, call, freqVars>>

\* the record of the active process call number t that loaded l, applied a
\* message if received, ran on renderer r0 and whose generator returned gen;
\* b is the record of the call before it
ActiveBlock(t, l, received, msg, r0, gen, b) ==
    [t |-> t, active |-> TRUE, type_ |-> l.type_, out |-> gen.out,
     pending |-> l.pending, applied |-> received,
     dc |-> b.dc /\ l.type_ = "Sine" /\ l.freq = 0,
     freq |-> l.freq,
     type_at_begin |-> l.type_at_begin,
     wave_dn |-> IF received THEN msg.disable_normalization ELSE b.wave_dn,
     first_phase |-> PhaseOf(l.type_, r0),
     lo |-> gen.lo, hi |-> gen.hi,
     last_phase |-> PhaseOf(l.type_, gen.r),
     incr_phase |-> gen.r.incr_phase,
     prev_type |-> IF b.active THEN b.type_ ELSE b.prev_type,
     prev_last_phase |-> IF b.active THEN b.last_phase ELSE b.prev_last_phase]

\* ctrl after the try_recv of the renderer took the message: send returns
Returned(c) == [c EXCEPT !.pc = "idle", !.was = "none"]

\* OscillatorRenderer::process from the try_recv on; where idx + 1 overflowed
\* in the generator the call panics in a build with overflow checks and
\* returns in one without
ProcessFinish ==
    LET received == ctrl.pc = "sending" IN
    /\ rpc = "loaded"
    /\ ctrl' = IF received THEN Returned(ctrl) ELSE ctrl
    /\ \E set \in {IF received THEN RendererSetPeriodicWave(renderer, ctrl.msg)
                    ELSE [status |-> "ok", r |-> renderer]} :
          IF set.status # "ok"
          THEN /\ rpc' = IF set.status = "spin" THEN "spins" ELSE "panics"
               /\ renderer' = set.r
               /\ UNCHANGED <<block, now>>
          ELSE \E gen \in {generate_output(loaded.type_, set.r, loaded.freq)} :
               /\ rpc' \in IF gen.status = "panic" THEN {"panics"}
                           ELSE IF gen.overflow THEN {"idle", "panics"}
                           ELSE {"idle"}
               /\ renderer' = gen.r
               /\ block' = ActiveBlock(now, loaded, received, ctrl.msg, set.r,
                                       IF rpc' = "panics" /\ gen.status = "ok"
                                       THEN [gen EXCEPT !.out = <<>>] ELSE gen,
                                       block)
               /\ now' = now + 1
    /\ UNCHANGED <<osc_type, frequency, detune, osc_options, start_time, stop_time, wave, loaded>>
    /\ UNCHANGED <<timeVars, call, freqVars>>


\* ------------------------------------------------------------- inputs
\* the block the next add_data call passes: a signal block tagged with the
\* call number, or, while nothing but silence was fed, a silent block
NextBlocks ==
    {Len(passed) + 1} \cup
    (IF Len(passed) < MaxSilent /\ \A i \in 1..Len(passed) : passed[i] = 0
     THEN {0} ELSE {})

TimeFftSizes == {32, 64} \cup {RENDER_QUANTUM_SIZE * q : q \in 1..MaxFftQuanta}
OutLens == {32, RENDER_QUANTUM_SIZE + 32, RENDER_QUANTUM_SIZE * MaxOutQuanta}
\* fft_size is a power of two in [32, 32768]
CycleFftSizes == {2^e : e \in 5..15}

\* ------------------------------------------------------ specifications
KernelFftSizes == {32, 64, 256}
FreqOutLens == {16, 64, 130}

KernelInit(sizes) ==
    /\ \E n \in sizes : AnalyserNew(n)
    /\ nCalc = 0
    /\ passed = <<>>
    /\ indexTrace = <<0>>
    /\ sinceTrue = 0
    /\ call = NoCall
    /\ OscInit

Init == KernelInit({32})

AddRing == \E d \in NextBlocks : add_data(d, MaxAdds)
ReadTime == \E f \in TimeFftSizes, l \in OutLens : get_float_time(f, l)

Next == AddRing \/ ReadTime

\* the ring and its time-domain read-out
Spec == Init /\ [][Next]_vars

AddCycle == add_data(Len(passed) + 1, MaxCycleAdds)
CheckCycle == \E f \in CycleFftSizes : check_complete_cycle(f)

NextCycle == AddCycle \/ CheckCycle

\* the ring and its cycle check
SpecCycle == Init /\ [][NextCycle]_vars

InitKernel == KernelInit(KernelFftSizes)

AddKernel == ~Panicked /\ \E d \in NextBlocks : add_data(d, MaxKernelAdds)
CalcKernel ==
    ~Panicked /\ \E f \in KernelFftSizes, s2 \in SmoothingHalves :
                    calculate_float_frequency(f, s2)
ReadFreqKernel == ~Panicked /\ \E l \in FreqOutLens : get_float_frequency(l)

NextKernel == AddKernel \/ CalcKernel \/ ReadFreqKernel

\* the frequency side of the analyser kernel, on a short stream
SpecKernel == InitKernel /\ [][NextKernel]_vars

AddShort == \E d \in NextBlocks : add_data(d, MaxShortAdds)
CheckShort == \E f \in CycleFftSizes : check_complete_cycle(f)
ReadShort == \E f \in TimeFftSizes, l \in OutLens : get_float_time(f, l)

NextShort == AddShort \/ CheckShort \/ ReadShort

\* the three operations of the TimeAnalyser together, on a short stream
SpecShort == Init /\ [][NextShort]_vars

\* PeriodicWaveOptions the application builds: the three shapes of the tests,
\* the example of the documentation, a single harmonic and a sine in imag
WaveOptions ==
    {NoOptions,
     SomeOptions(<<0>>, <<0, 0, 0>>, FALSE),
     SomeOptions(<<0, 0, 0>>, <<0>>, FALSE),
     SomeOptions(<<0, 0, 0>>, <<0, 0>>, FALSE),
     SomeOptions(<<0, 1, 1>>, <<0, 0, 0>>, FALSE),
     SomeOptions(<<0, 1>>, <<0, 0>>, TRUE),
     SomeOptions(<<0, 0>>, <<0, 1>>, TRUE)}
\* a sample rate that is a power of two: f / sample_rate and every phase are
\* exact in f32
SampleRates == {8192 * FreqScale}
Frequencies == {0, 443 * FreqScale}
\* the types the application constructs a node with
NodeTypes == {"Sine", "Custom"}
\* process calls of the oscillator specification
MaxBlocks == 2
\* PeriodicWave::new calls of the oscillator specification
MaxWaves == 1
StartTimes == {0}
StopTimes == {1}

\* Option<PeriodicWave> of the OscillatorOptions: None, or the wave built last
NodeWaves == {NoWave} \cup (IF wave.made > 0 /\ wave.result.ok THEN {wave.result} ELSE {})

MakeWave == \E o \in WaveOptions : NewPeriodicWave(o, MaxWaves)
MakeNode ==
    \E t \in NodeTypes, f \in Frequencies, w \in NodeWaves, sr \in SampleRates :
        OscillatorNodeNew(t, f, w, sr)
TuneOsc == \E f \in Frequencies : SetFrequency(f)
StartOsc == \E t \in StartTimes : Start(t)
StopOsc == \E t \in StopTimes : Stop(t)
BeginOsc == ProcessBegin(MaxBlocks)

NextOsc ==
    \/ MakeWave
    \/ MakeNode
    \/ TuneOsc
    \/ StartOsc
    \/ StopOsc
    \/ SetPeriodicWaveStore
    \/ SetPeriodicWaveSend
    \/ BeginOsc
    \/ ProcessFinish

\* the oscillator node: its control thread and its render thread
SpecOsc == Init /\ [][NextOsc]_vars

\* process calls of the specification of the type switches
MaxTypeBlocks == 2

MakeSwitchNode ==
    \E t \in Rendered, sr \in SampleRates : OscillatorNodeNew(t, 443 * FreqScale, NoWave, sr)
SwitchType == \E t \in Rendered : set_type(t)
BeginSwitch == ProcessBegin(MaxTypeBlocks)

NextTypes ==
    \/ MakeSwitchNode
    \/ SwitchType
    \/ StartOsc
    \/ BeginSwitch
    \/ ProcessFinish

\* the oscillator node whose type the application changes between and
\* during process calls
SpecTypes == Init /\ [][NextTypes]_vars

\* process calls of the specification of the detuned oscillator
MaxDetuneBlocks == 2
\* the frequencies and the detunes, in cents, the application sets there
DetunedFrequencies == {-16 * FreqScale, 443 * FreqScale}
Detunes == {-1200, 0, 4800}
DetunedTypes == {"Sine", "Sawtooth", "Triangle"}

MakeDetuneNode ==
    \E t \in DetunedTypes, sr \in SampleRates :
        OscillatorNodeNew(t, 443 * FreqScale, NoWave, sr)
TuneDetuned == \E f \in DetunedFrequencies : SetFrequency(f)
DetuneOsc == \E d \in Detunes : SetDetune(d)
BeginDetuned == ProcessBegin(MaxDetuneBlocks)

NextDetune ==
    \/ MakeDetuneNode
    \/ TuneDetuned
    \/ DetuneOsc
    \/ StartOsc
    \/ BeginDetuned
    \/ ProcessFinish

\* the oscillator node whose frequency and detune the application changes
\* between and during process calls
SpecDetune == Init /\ [][NextDetune]_vars

\* --------------------------------------------------------------- claims
\* the stream the analyser was fed: position pos (1-based) of the samples
\* passed to add_data, and 0 before the start of the stream
StreamSample(pos) ==
    IF pos <= 0 THEN 0
    ELSE Sample(passed[(pos + RENDER_QUANTUM_SIZE - 1) \div RENDER_QUANTUM_SIZE],
                (pos - 1) % RENDER_QUANTUM_SIZE)

\* C1: after n >= 1 add_data calls, a get_float_time with fft_size a multiple
\* of K = 128 and a buffer of at least fft_size entries fills out[0..fft_size)
\* so that the j-th K-sized chunk counted from the end is the (n-1-j)-th block
\* passed to add_data when j < min(n, 256), and is all zeros otherwise.
C1_TimeChunksFromNewest ==
    (/\ call.op = "get_float_time"
     /\ call.fft_size % RENDER_QUANTUM_SIZE = 0
     /\ call.len >= call.fft_size)
    => LET n == Len(passed) IN
       \A j \in 0..(call.fft_size \div RENDER_QUANTUM_SIZE - 1) :
       \A p \in 0..(RENDER_QUANTUM_SIZE - 1) :
          call.out[call.fft_size - (j + 1) * RENDER_QUANTUM_SIZE + p + 1]
             = IF j < Min(n, MAX_QUANTA) THEN Sample(passed[n - j], p) ELSE 0

\* C1 witness: a read of three quanta after the ring has wrapped, whose first
\* chunk is the block added three calls ago
C1_Witness ==
    /\ call.op = "get_float_time"
    /\ Len(passed) > MAX_QUANTA + 1
    /\ call.fft_size = 3 * RENDER_QUANTUM_SIZE
    /\ call.len >= call.fft_size
    /\ call.out[1] = Sample(Len(passed) - 2, 0)

\* C2: check_complete_cycle(fft_size) returns true if and only if the true
\* number of add_data calls since the previous true return (or since creation)
\* times K is a multiple of fft_size, also when 256 or more blocks arrived
\* since, and for fft_size <= K it returns true on every call.
C2_CycleIffMultiple ==
    call.op = "check_complete_cycle"
    => /\ call.ret <=> (call.since * RENDER_QUANTUM_SIZE) % call.fft_size = 0
       /\ call.fft_size <= RENDER_QUANTUM_SIZE => call.ret

\* C2 witness: 257 blocks since the last true return, checked against two quanta
C2_Witness ==
    /\ call.op = "check_complete_cycle"
    /\ call.since = MAX_QUANTA + 1
    /\ call.fft_size = 2 * RENDER_QUANTUM_SIZE
    /\ ~call.ret

\* C3: get_float_time copies the most recent m = min(fft_size, out.len())
\* samples in chronological order, newest at the end, also when m is not a
\* multiple of K: out[m-1] is the last sample of the newest block and
\* out[0..m) is a contiguous run of the stream.
C3_MostRecentSamples ==
    call.op = "get_float_time"
    => LET m == Min(call.fft_size, call.len)
           total == Len(passed) * RENDER_QUANTUM_SIZE
       IN \A i \in 1..m : call.out[i] = StreamSample(total - m + i)

\* C8: after exactly 256 further add_data calls the ring index equals its
\* value before them, and it takes 256 distinct values in between.
C8_IndexWrapsIn256 ==
    \A i \in 1..(Len(indexTrace) - U8) :
        /\ indexTrace[i + U8] = indexTrace[i]
        /\ Cardinality({indexTrace[k] : k \in i..(i + U8 - 1)}) = U8

\* C8 witness: 256 calls were made from a state that followed at least one call
C8_Witness ==
    /\ Len(indexTrace) > U8 + 1
    /\ indexTrace[Len(indexTrace)] = indexTrace[Len(indexTrace) - U8]
    /\ index = 1

\* C7: get_float_frequency writes exactly the first min(out.len(), N/2 + 1)
\* entries of out, N the current fft size, and leaves the others unchanged; a
\* written entry whose smoothed magnitude is 0 is negative infinity, so after
\* nothing but silent blocks every written entry is negative infinity.
C7_FrequencyReadout ==
    call.op = "get_float_frequency"
    => LET written == Min(call.len, current_fft_size \div 2 + 1) IN
       \A i \in 1..call.len :
          IF i <= written
          THEN /\ call.out[i] # FreqFill
               /\ previous_block[i] = 0 => call.out[i] = NEG_INFINITY
               /\ (\A k \in 1..Len(passed) : passed[k] = 0) => call.out[i] = NEG_INFINITY
          ELSE call.out[i] = FreqFill

\* C7 witness: the frequency data of a silent stream, read after a
\* calculation into a buffer longer than N/2 + 1
C7_Witness ==
    /\ call.op = "get_float_frequency"
    /\ nCalc > 0
    /\ Len(passed) > 0 /\ \A k \in 1..Len(passed) : passed[k] = 0
    /\ call.len > current_fft_size \div 2 + 1
    /\ call.out[current_fft_size \div 2 + 1] = NEG_INFINITY
    /\ call.out[current_fft_size \div 2 + 2] = FreqFill

\* C9: get_float_time never modifies out[i] for i >= min(fft_size, out.len()),
\* and leaves the ring contents, the write index and the cycle marker unchanged.
C9_TimeReadFrame ==
    [][call'.op = "get_float_time"
       => /\ buffer' = buffer
          /\ index' = index
          /\ previous_cycle_index' = previous_cycle_index
          /\ \A i \in 1..call'.len :
                i > Min(call'.fft_size, call'.len) => call'.out[i] = FILL]_vars

\* C9 witness: a read into a buffer longer than fft_size, made after the cycle
\* marker has moved
C9_Witness ==
    /\ call.op = "get_float_time"
    /\ call.len > call.fft_size
    /\ call.out[1] # FILL
    /\ call.out[call.len] = FILL
    /\ previous_cycle_index # 0

\* C4: set_periodic_wave never blocks: whatever the render thread and the
\* scheduler are doing, the control thread is never still inside the send of
\* set_periodic_wave when a process call of the renderer returns, i.e. the
\* call returns without waiting for a render-side process call.
C4_SendDoesNotWait == ctrl.pc = "sending" => ctrl.waited = 0

\* C5: every process call, also one for a block in which the source is not
\* active, applies the message that was pending on the channel when the call
\* began, before the call returns its block.
C5_PendingAppliedFirst == block.pending => block.applied

\* real.len() >= 2, imag.len() >= 2 and real.len() == imag.len()
ValidShape(real, imag) == Len(real) >= 2 /\ Len(imag) >= 2 /\ Len(real) = Len(imag)

\* C6: PeriodicWave::new with options fails with a range error exactly when
\* real is shorter than 2, imag is shorter than 2 or the two lengths differ;
\* otherwise the descriptor holds exactly the given real, imag and
\* disable_normalization; and every descriptor that is on its way to the
\* renderer or was given to it has a valid shape.
C6_RangeErrorIffInvalidShape ==
    /\ (wave.made > 0 /\ wave.options.some) =>
          /\ ~wave.result.ok <=> ~ValidShape(wave.options.real, wave.options.imag)
          /\ wave.result.ok =>
                /\ wave.result.real = wave.options.real
                /\ wave.result.imag = wave.options.imag
                /\ wave.result.disable_normalization = wave.options.disable_normalization
    /\ ctrl.pc \in {"stored", "sending"} => ValidShape(ctrl.msg.real, ctrl.msg.imag)
    /\ osc_options.periodic_wave.ok =>
          ValidShape(osc_options.periodic_wave.real, osc_options.periodic_wave.imag)
    /\ (block.active /\ block.applied) => Len(renderer.cplxs) >= 2

\* a node exists, and PeriodicWave::new rejected options whose real and imag
\* are both long enough but differ in length
C6_Witness ==
    /\ Alive
    /\ wave.made > 0 /\ wave.options.some /\ ~wave.result.ok
    /\ Len(wave.options.real) >= 2 /\ Len(wave.options.imag) >= 2

\* the interpolated table value of sample o is SINETABLE[0] = 0: every
\* entry it takes with a weight other than 0 is entry 0
TableValueIsZero(o) ==
    \A k \in 1..Len(o.table) : o.table[k].idx = 0 \/ o.table[k].c = 0

\* C10: a sine oscillator whose frequency is 0 from t = 0 can be constructed
\* (the constructor returns when the construction frequency is 0), and while
\* every block rendered so far was a sine block at frequency 0 the phase is 0
\* and every sample of the block is table[0] = 0.
C10_SineAtDC ==
    /\ (osc_options.type_ = "Sine" /\ osc_options.frequency = 0) =>
          rpc \notin {"new_spins", "new_panics"}
    /\ (block.active /\ block.dc) =>
          /\ renderer.phase = 0
          /\ \A i \in 1..Len(block.out) : TableValueIsZero(block.out[i])

\* a completed process call that generated a whole block
Generated == block.active /\ Len(block.out) = RENDER_QUANTUM_SIZE

\* C11: in a block of type custom, when the descriptor in force has
\* disable_normalization = false every sample is the wavetable value scaled by
\* the norm factor 1 / max, and when it has disable_normalization = true no
\* sample is scaled.
C11_CustomPeakNormalised ==
    (Generated /\ block.type_ = "Custom") =>
        \A i \in 1..RENDER_QUANTUM_SIZE : block.out[i].norm.some = ~block.wave_dn

\* C12: a process call for a block outside [start, stop) returns a block of
\* 128 zeros and leaves the renderer (phase, increment, wavetable state) as it
\* was; a call for a block inside [start, stop) goes on to the generator, and
\* when it returns the block holds the 128 samples the generator wrote.
C12_SilentOutsideSchedule ==
    [][/\ (rpc = "idle" /\ now' = now + 1) =>
             /\ ~is_active(now)
             /\ ~block'.active /\ block'.t = now
             /\ Len(block'.out) = RENDER_QUANTUM_SIZE
             /\ \A i \in 1..RENDER_QUANTUM_SIZE :
                    block'.out[i] = SampleOf(0, "table", NoNormFactor)
             /\ renderer' = renderer
       /\ (rpc = "idle" /\ rpc' = "loaded") => is_active(now)
       /\ (rpc = "loaded" /\ rpc' = "idle") =>
             /\ block'.active /\ block'.t = now /\ now' = now + 1
             /\ block'.type_ = loaded.type_
             /\ Len(block'.out) = RENDER_QUANTUM_SIZE]_vars

\* C12 witness: a silent block returned after the stop time, following a block
\* in which the source was active
C12_Witness ==
    /\ rpc = "idle" /\ stop_time.set
    /\ ~block.active /\ block.t >= stop_time.t
    /\ block.prev_type \in Rendered
    /\ renderer.phase # 0

\* the generator that writes a sample of the form of o: generate_sawtooth
\* subtracts one poly_blep term, generate_square adds one and subtracts one,
\* generate_sine writes an interpolated table value, generate_triangle the
\* output of its integrator, generate_custom a wavetable value or a sum of
\* harmonics
SampleType(o) ==
    IF Len(o.blep) = 1 THEN "Sawtooth"
    ELSE IF Len(o.blep) = 2 THEN "Square"
    ELSE IF Len(o.table) = 2 THEN "Sine"
    ELSE IF o.scale = "f32" THEN "Triangle"
    ELSE "Custom"

\* C13: the type the node had when a process call began (the last set_type
\* completed before it) is the type the call generates with, and each of the
\* 128 samples of its block is written by the generator of that type.
C13_TypeLoadedOncePerBlock ==
    Generated =>
        /\ block.type_ = block.type_at_begin
        /\ \A i \in 1..RENDER_QUANTUM_SIZE : SampleType(block.out[i]) = block.type_at_begin

\* C13 witness: a block generated with another type than the block before
\* it, while the node has been set to yet another type during the call
C13_Witness ==
    /\ Generated
    /\ block.prev_type \in Rendered /\ block.prev_type # block.type_
    /\ osc_type # block.type_

\* C14: the first sample of a block generated with another type than the
\* active block before it is computed from the phase value that block left
\* the renderer with, for every pair of types.
C14_SwitchKeepsPhase ==
    (Generated /\ block.prev_type \in Rendered /\ block.prev_type # block.type_) =>
        block.first_phase = block.prev_last_phase

\* C15: the frequency a generated block advanced the phase with is at most
\* Nyquist (sample_rate / 2) in absolute value, for every frequency in
\* [-Nyquist, Nyquist] and every detune the application sets.
C15_ComputedFreqWithinNyquist ==
    Generated =>
        /\ 2 * Abs(block.freq) <= renderer.sample_rate
        /\ 2 * Abs(renderer.computed_freq) <= renderer.sample_rate

\* C16: a calculate_float_frequency(n, s) call returns with current_fft_size
\* = n and a Blackman window of n entries; when n differs from the fft size
\* before the call every smoothed magnitude of bins 0..n/2 is (1 - s) times
\* the magnitude of its bin (the history counts as zero), and when n equals
\* it the history is kept and blended with weight s.
C16_ResizeResetsHistory ==
    [][nCalc' = nCalc + 1 =>
        LET n == call'.fft_size IN
        /\ ~call'.panic
        /\ current_fft_size' = n
        /\ Len(blackman') = n
        /\ \A k \in 1..Bins(n) :
              previous_block'[k] =
                  Smooth(call'.smoothing,
                         IF n # current_fft_size THEN 0 ELSE previous_block[k],
                         fft_output'[k])]_vars

\* C17: the phase increment a generated block advanced with is f / sr for
\* sawtooth, square and triangle and f / sr * 2048 for sine, f being the
\* computed frequency of the block, also in the first block after a type
\* switch made while the frequency is unchanged.
C17_IncrementInUnitOfType ==
    Generated =>
        /\ block.type_ \in {"Sawtooth", "Square", "Triangle"} =>
              block.incr_phase = block.freq
        /\ block.type_ = "Sine" => block.incr_phase = block.freq * TABLE_LENGTH_USIZE

\* C18: in a generated sawtooth, square or triangle block the phase every
\* sample is computed from is at least 0 and less than 1 turn, also in the
\* block after a switch from sine and for negative frequencies.
C18_PhaseWithinOneTurn ==
    (Generated /\ block.type_ \in {"Sawtooth", "Square", "Triangle"}) =>
        /\ block.lo.kind = "finite" /\ 0 <= block.lo.v
        /\ block.hi.kind = "finite" /\ block.hi.v < renderer.sample_rate

\* C19: the loop that fills the wavetable is left, in the constructor of the
\* oscillator and when a process call applies a periodic-wave message, for
\* every valid descriptor and every frequency, 0 included: no constructor and
\* no process call stays in it forever.
C19_WavetableLoopLeft ==
    /\ rpc # "new_spins"
    /\ rpc # "spins"

\* C20: for every valid descriptor and every positive frequency the wavetable
\* holds at least one sample after the construction of the oscillator and
\* after every descriptor swap: neither the constructor nor a process call
\* panics over an empty wavetable.
C20_WavetableNonEmpty ==
    /\ rpc = "new_panics" => osc_options.frequency <= 0
    /\ rpc = "panics" => renderer.ref_freq <= 0
    /\ (renderer # NoRenderer /\ renderer.ref_freq > 0) =>
          Len(renderer.periodic_wavetable) > 0

\* C21: no block is generated as custom because of a set_periodic_wave call
\* (the node had another type before the call, which is the only way its type
\* became custom) while the descriptor of that call has not been applied to
\* the renderer.
C21_TypeAndWaveTogether ==
    ~(/\ Generated /\ block.type_ = "Custom"
      /\ ctrl.pc \in {"stored", "sending"}
      /\ ctrl.was \in Rendered \ {"Custom"})

\* C22: once the renderer has applied the message of a set_periodic_wave call
\* (the call has returned and ctrl.msg is its descriptor), the normalization
\* mode generate_custom tests is the disable_normalization of that descriptor.
C22_SwapSetsNormalisationMode ==
    (Alive /\ ctrl.pc = "idle" /\ ctrl.msg.ok) =>
        renderer.disable_normalization = ctrl.msg.disable_normalization

\* C23: a process call that applies the descriptor pw of a message while the
\* computed frequency is f, and generates a block of another type than
\* custom (so that the generator leaves the periodic state alone), returns
\* with the amplitudes, the increments, the interpolation ratios, the
\* wavetable, the reference frequency, the table step and the norm factor of
\* a renderer constructed with pw at frequency f.
C23_SwapEqualsFreshRenderer ==
    [][(/\ rpc = "loaded" /\ ctrl.pc = "sending"
        /\ loaded.type_ # "Custom"
        /\ rpc' = "idle") =>
          LET fresh == RendererNew(renderer.computed_freq, renderer.sample_rate, ctrl.msg).r
          IN /\ renderer'.norms = fresh.norms
             /\ renderer'.incr_phases = fresh.incr_phases
             /\ renderer'.interpol_ratios = fresh.interpol_ratios
             /\ renderer'.periodic_wavetable = fresh.periodic_wavetable
             /\ renderer'.ref_freq = fresh.ref_freq
             /\ renderer'.wt_incr_phase = fresh.wt_incr_phase
             /\ renderer'.norm_factor = fresh.norm_factor]_vars

\* C24: no calculate_float_frequency(n, s) call, for an fft size n of the
\* analyser larger than the construction size included, ends in an
\* out-of-range access to the FFT input, the smoothing history or the window.
C24_ResizeInRange ==
    call.op = "calculate_float_frequency" => ~call.panic
====
